---- MODULE Spec2Model ----
(***************************************************************************)
(* A model of the waveform tile renderer (CanvasEntry,                     *)
(* src/unnamed/part_001) and of the restrict / trim example application    *)
(* (src/example/restrict/app.js).                                          *)
(*                                                                         *)
(* JavaScript numbers are IEEE-754 binary64.  The fractions a tile keeps   *)
(* in this.start / this.end are modelled bit for bit.  A non-negative      *)
(* number below 2^IntBits is a fixed-point value of four 16-bit limbs,     *)
(* <<l1, l2, l3, l4>>, read as the 64-bit integer                          *)
(*     l1 * 2^48 + l2 * 2^32 + l3 * 2^16 + l4                              *)
(* scaled by 2^-FracBits, and every arithmetic result is rounded to        *)
(* MantBits significant binary digits, ties to even, as the hardware does. *)
(* Every binary64 value that is 0 or at least 2^-(FracBits - MantBits)     *)
(* has an exact fixed-point form, so within the bounds below the model's   *)
(* results are the results of the JavaScript expressions.                  *)
(***************************************************************************)
EXTENDS Integers, Sequences, FiniteSets

\* ------------------------------------------------------------------------
\* Bounds of the model
\* ------------------------------------------------------------------------
MaxTotalWidth == 6     \* total rendered width of a tile set, in pixels
MaxTiles == 3          \* tiles of a tile set
MaxView == 6           \* largest peak index of a view window of a tile set
MaxCalls == 3          \* calls made on the single tile after its creation
TotalDuration == 20    \* length of the loaded audio, in seconds

\* ------------------------------------------------------------------------
\* binary64 arithmetic on non-negative numbers
\* ------------------------------------------------------------------------
MantBits == 53
IntBits == 6
LimbBits == 16
FracBits == 4 * LimbBits - IntBits
TopFrac == LimbBits - IntBits      \* fraction digits held by the first limb

RECURSIVE Pow2(_)
Pow2(n) == IF n = 0 THEN 1 ELSE 2 * Pow2(n - 1)

Base == Pow2(LimbBits)

FZero == <<0, 0, 0, 0>>

\* the integer n as a number (exact; 0 <= n < 2^IntBits)
FInt(n) == <<n * Pow2(TopFrac), 0, 0, 0>>

\* number of binary digits of v (0 for v = 0)
RECURSIVE BitLen(_)
BitLen(v) == IF v = 0 THEN 0 ELSE 1 + BitLen(v \div 2)

\* number of significant binary digits of the 64-bit integer of x, counted
\* from its lowest digit
Width(x) == IF x[1] # 0 THEN 3 * LimbBits + BitLen(x[1])
            ELSE IF x[2] # 0 THEN 2 * LimbBits + BitLen(x[2])
            ELSE IF x[3] # 0 THEN LimbBits + BitLen(x[3])
            ELSE BitLen(x[4])

\* x plus c units of the last limb, carried upwards
AddLow(x, c) ==
    LET s4 == x[4] + c
        s3 == x[3] + s4 \div Base
        s2 == x[2] + s3 \div Base
        s1 == x[1] + s2 \div Base
    IN  <<s1, s2 % Base, s3 % Base, s4 % Base>>

\* round an exact value (x, plus a non-zero tail below the last limb when
\* sticky) to MantBits significant digits, round-half-to-even.  With at
\* most LimbBits digits to drop they all lie in the last limb.
RoundMant(x, sticky) ==
    LET d == Width(x) - MantBits
    IN  IF d <= 0 THEN x
        ELSE LET unit == Pow2(d)
                 low  == x[4] % unit
                 half == unit \div 2
                 odd  == (x[4] \div unit) % 2 = 1
                 tail == sticky \/ (low % half) # 0
                 up   == low >= half /\ (tail \/ odd)
                 cut  == <<x[1], x[2], x[3], x[4] - low>>
             IN  IF up THEN AddLow(cut, unit) ELSE cut

\* a / t for integers: 0 <= a < t * 2^IntBits, 1 <= t < 2^(31 - LimbBits)
FDiv(a, t) ==
    LET n1 == a * Pow2(TopFrac)
        n2 == (n1 % t) * Base
        n3 == (n2 % t) * Base
        n4 == (n3 % t) * Base
    IN  RoundMant(<<n1 \div t, n2 \div t, n3 \div t, n4 \div t>>, n4 % t # 0)

\* the exact sum x + y
ExactAdd(x, y) ==
    LET s4 == x[4] + y[4]
        s3 == x[3] + y[3] + s4 \div Base
        s2 == x[2] + y[2] + s3 \div Base
        s1 == x[1] + y[1] + s2 \div Base
    IN  <<s1, s2 % Base, s3 % Base, s4 % Base>>

\* x + y
FAdd(x, y) == RoundMant(ExactAdd(x, y), FALSE)

\* the exact product n * x for an integer 0 <= n < 2^(31 - LimbBits)
ExactTimes(n, x) ==
    LET p4 == n * x[4]
        p3 == n * x[3] + p4 \div Base
        p2 == n * x[2] + p3 \div Base
        p1 == n * x[1] + p2 \div Base
    IN  <<p1, p2 % Base, p3 % Base, p4 % Base>>

\* n * x
FTimes(n, x) == RoundMant(ExactTimes(n, x), FALSE)

\* the integer part of x
FFloor(x) == x[1] \div Pow2(TopFrac)

\* Math.round: the nearest integer, a tie going up
MathRound(x) == FFloor(x) + ((x[1] \div Pow2(TopFrac - 1)) % 2)

\* x <= y
FLeq(x, y) == x = y \/ \E i \in 1..4 : x[i] < y[i] /\ \A j \in 1..(i - 1) : x[j] = y[j]

\* ------------------------------------------------------------------------
\* CanvasEntry (src/unnamed/part_001)
\* ------------------------------------------------------------------------
Null == "null"
None == "none"

\* the four canvas elements a tile may be given
Surfaces == {"wave", "progress", "restrictLeft", "restrictRight"}

\* Math.round(p / q) for integers p, q > 0: floor(p / q + 1/2)
JsRound(p, q) == (2 * p + q) \div (2 * q)

\* constructor
NewEntry ==
    [wave |-> Null, waveCtx |-> Null,
     progress |-> Null, progressCtx |-> Null,
     restrictLeft |-> Null, restrictRight |-> Null,
     restrictLeftCtx |-> Null, restrictRightCtx |-> Null,
     start |-> FZero, end |-> FInt(1),
     hasProgressCanvas |-> FALSE, hasRestrictedCanvases |-> FALSE,
     canvasDebugLine |-> FALSE]

\* The outcome of a call: the entry and the canvases after it, the null
\* reference it threw on (None when it returned), and the surfaces on which
\* it filled a path.
Outcome(e, c, threw, filled) == [e |-> e, c |-> c, threw |-> threw, filled |-> filled]

\* initWave(element): element.getContext throws on a null element, after
\* the element has been stored
initWave(e, c, element) ==
    LET e1 == [e EXCEPT !.wave = element]
    IN  IF element = Null THEN Outcome(e1, c, "wave", {})
        ELSE Outcome([e1 EXCEPT !.waveCtx = element], c, None, {})

\* a variant of initProgress that tolerates a null element
initProgressNoThrow(e, c, element) ==
    Outcome([e EXCEPT !.progress = element, !.progressCtx = element], c, None, {})

\* initProgress(element)
initProgress(e, c, element) ==
    LET e1 == [e EXCEPT !.progress = element]
    IN  IF element = Null THEN Outcome(e1, c, "progress", {})
        ELSE Outcome([e1 EXCEPT !.progressCtx = element], c, None, {})

\* initRestricted(elementLeft, elementRight)
initRestricted(e, c, elementLeft, elementRight) ==
    LET e1 == [e EXCEPT !.restrictLeft = elementLeft, !.restrictRight = elementRight]
        e2 == [e1 EXCEPT !.restrictLeftCtx = elementLeft]
        e3 == [e2 EXCEPT !.restrictRightCtx = elementRight]
    IN  IF elementLeft = Null THEN Outcome(e1, c, "restrictLeft", {})
        ELSE IF elementRight = Null THEN Outcome(e2, c, "restrictRight", {})
        ELSE Outcome(e3, c, None, {})

\* updateStyle(element): assigning a canvas's width or height resets its
\* bitmap; style() sets the CSS width
updateStyle(cv, elementWidth, width, height) ==
    [cv EXCEPT !.width = width, !.height = height, !.styleWidth = elementWidth,
               !.paint = <<>>]

\* this.start and this.end as updateDimensions computes them
SpanStart(offsetLeft, totalWidth) == FDiv(offsetLeft, totalWidth)

SpanEnd(start, elementWidth, totalWidth) == FAdd(start, FDiv(elementWidth, totalWidth))

\* updateDimensions(elementWidth, totalWidth, width, height)
updateDimensions(e, c, elementWidth, totalWidth, width, height) ==
    IF e.wave = Null THEN Outcome(e, c, "wave", {})
    ELSE
    LET st == SpanStart(c[e.wave].offsetLeft, totalWidth)
        e1 == [e EXCEPT !.start = st, !.end = SpanEnd(st, elementWidth, totalWidth)]
        c1 == [c EXCEPT ![e.wave] = updateStyle(@, elementWidth, width, height)]
        pOk == ~e.hasProgressCanvas \/ e.progress # Null
        c2 == IF e.hasProgressCanvas /\ pOk
              THEN [c1 EXCEPT ![e.progress] = updateStyle(@, elementWidth, width, height)]
              ELSE c1
        c3 == [c2 EXCEPT ![e.restrictLeft] = updateStyle(@, elementWidth, width, height)]
        c4 == [c3 EXCEPT ![e.restrictRight] = updateStyle(@, elementWidth, width, height)]
    IN  IF ~pOk THEN Outcome(e1, c1, "progress", {})
        ELSE IF ~e.hasRestrictedCanvases THEN Outcome(e1, c2, None, {})
        ELSE IF e.restrictLeft = Null THEN Outcome(e1, c2, "restrictLeft", {})
        ELSE IF e.restrictRight = Null THEN Outcome(e1, c3, "restrictRight", {})
        ELSE Outcome(e1, c4, None, {})

\* ctx.clearRect(0, 0, ctx.canvas.width, ctx.canvas.height)
clearRect(cv) == [cv EXCEPT !.paint = <<>>]

\* clearWave()
clearWave(e, c) ==
    IF e.waveCtx = Null THEN Outcome(e, c, "wave", {})
    ELSE LET c1 == [c EXCEPT ![e.waveCtx] = clearRect(@)]
         IN  IF ~e.hasProgressCanvas THEN Outcome(e, c1, None, {})
             ELSE IF e.progressCtx = Null THEN Outcome(e, c1, "progress", {})
             ELSE Outcome(e, [c1 EXCEPT ![e.progressCtx] = clearRect(@)], None, {})

\* setFillStyles(waveColor, progressColor, restrictColor)
setFillStyles(e, c, waveColor, progressColor, restrictColor) ==
    IF e.waveCtx = Null THEN Outcome(e, c, "wave", {})
    ELSE
    LET c1 == [c EXCEPT ![e.waveCtx].fillStyle = waveColor]
        pOk == ~e.hasProgressCanvas \/ e.progressCtx # Null
        c2 == IF e.hasProgressCanvas /\ pOk
              THEN [c1 EXCEPT ![e.progressCtx].fillStyle = progressColor]
              ELSE c1
        c3 == [c2 EXCEPT ![e.restrictLeftCtx].fillStyle = restrictColor]
        c4 == [c3 EXCEPT ![e.restrictRightCtx].fillStyle = restrictColor]
    IN  IF ~pOk THEN Outcome(e, c1, "progress", {})
        ELSE IF ~e.hasRestrictedCanvases THEN Outcome(e, c2, None, {})
        ELSE IF e.restrictLeftCtx = Null THEN Outcome(e, c2, "restrictLeft", {})
        ELSE IF e.restrictRightCtx = Null THEN Outcome(e, c3, "restrictRight", {})
        ELSE Outcome(e, c4, None, {})

\* ctx.fill() and ctx.fillRect(): painting composites over what the
\* surface holds, so a surface is the sequence of what was painted on it
\* since it was last cleared
Painted(cv, op) == [cv EXCEPT !.paint = Append(@, op)]

\* drawRoundedRect(ctx, x, y, width, height, radius)
drawRoundedRect(cv, x, y, width, height, radius) ==
    IF height = 0 THEN cv
    ELSE LET h == IF height < 0 THEN -height ELSE height
             y1 == IF height < 0 THEN y - h ELSE y
         IN  Painted(cv, [kind |-> "roundedRect", x |-> x, y |-> y1, width |-> width,
                          height |-> h, radius |-> radius, style |-> cv.fillStyle])

\* fillRectToContext(ctx, x, y, width, height, radius)
fillRectToContext(c, ctx, x, y, width, height, radius) ==
    IF ctx = Null THEN c
    ELSE IF radius # 0
         THEN [c EXCEPT ![ctx] = drawRoundedRect(@, x, y, width, height, radius)]
         ELSE [c EXCEPT ![ctx] = Painted(@, [kind |-> "rect", x |-> x, y |-> y,
                                             width |-> width, height |-> height,
                                             radius |-> 0, style |-> @.fillStyle])]

\* fillRects(x, y, width, height, radius)
fillRects(e, c, x, y, width, height, radius) ==
    LET c1 == fillRectToContext(c, e.waveCtx, x, y, width, height, radius)
    IN  IF e.hasProgressCanvas
        THEN Outcome(e, fillRectToContext(c1, e.progressCtx, x, y, width, height, radius),
                     None, {})
        ELSE Outcome(e, c1, None, {})

\* peaks[i] || 0 for a JavaScript index i: a missing sample reads as 0
PeakAt(peaks, i) == IF i + 1 \in DOMAIN peaks THEN peaks[i + 1] ELSE 0

\* Math.round(peak_val / absmaxHalf) with absmaxHalf = absmax / halfH.  For
\* absmax and halfH powers of two both divisions are exact in binary64, and
\* the result is the rounded exact quotient.
AmpToPx(peak_val, absmax, halfH) == JsRound(peak_val * halfH, absmax)

\* 'first', 'last': the peak indices of this canvas within the view
\* [start, end)
FirstIdx(e, start, end) == start + MathRound(FTimes(end - start, e.start))

\* a variant of 'last' without the extra trailing index
LastIdxNoOverlap(e, start, end) == start + MathRound(FTimes(end - start, e.end))

LastIdx(e, start, end) == start + MathRound(FTimes(end - start, e.end)) + 1

\* A vertex of the path: x = k * scale + halfPixel for column offset k
\* (k = -1 marks the literal x = 0), y in pixels, and src the index into
\* peaks the y was read from (-1 when it was read from none).
Vertex(k, y, src) == [k |-> k, y |-> y, src |-> src]

\* the top edge, columns first .. last - 1
TopEdge(peaks, absmax, halfH, halfOffset, first, last) ==
    [n \in 1..(last - first) |->
        Vertex(n - 1, halfOffset - AmpToPx(PeakAt(peaks, 2 * (first + n - 1)), absmax, halfH),
               2 * (first + n - 1))]

\* the bottom edge, columns last - 1 down to first
BottomEdge(peaks, absmax, halfH, halfOffset, first, last) ==
    [n \in 1..(last - first) |->
        Vertex(last - first - n,
               halfOffset - AmpToPx(PeakAt(peaks, 2 * (last - n) + 1), absmax, halfH),
               2 * (last - n) + 1)]

\* the closed path drawLineToContext hands to ctx.fill()
EnvelopePath(peaks, absmax, halfH, offsetY, first, last) ==
    LET halfOffset == halfH + offsetY
    IN  <<Vertex(-1, halfOffset, -1),
          Vertex(-1, halfOffset - AmpToPx(PeakAt(peaks, 0), absmax, halfH), 0)>>
        \o TopEdge(peaks, absmax, halfH, halfOffset, first, last)
        \o BottomEdge(peaks, absmax, halfH, halfOffset, first, last)
        \o <<Vertex(-1, halfOffset - AmpToPx(PeakAt(peaks, 1), absmax, halfH), 1)>>

\* a variant of drawLineToContext that fills without clearing the canvas
drawLineNoClear(e, cv, peaks, absmax, halfH, offsetY, start, end) ==
    LET first == FirstIdx(e, start, end)
        last  == LastIdx(e, start, end)
    IN  Painted(cv,
                [kind |-> "fill",
                 path |-> EnvelopePath(peaks, absmax, halfH, offsetY, first, last),
                 first |-> first, last |-> last,
                 scale |-> <<cv.width - 1, last - first>>,
                 style |-> cv.fillStyle])

\* drawLineToContext(ctx, peaks, absmax, halfH, offsetY, start, end) on the
\* canvas of a non-null ctx
drawLineToContext(e, cv, peaks, absmax, halfH, offsetY, start, end) ==
    LET first == FirstIdx(e, start, end)
        last  == LastIdx(e, start, end)
        cv1   == clearRect(cv)
        cv2   == IF e.canvasDebugLine
                 THEN Painted(cv1, [kind |-> "stroke", width |-> cv.width,
                                    height |-> cv.height])
                 ELSE cv1
    IN  Painted(cv2,
                [kind |-> "fill",
                 path |-> EnvelopePath(peaks, absmax, halfH, offsetY, first, last),
                 first |-> first, last |-> last,
                 scale |-> <<cv.width - 1, last - first>>,
                 style |-> cv.fillStyle])

\* the contexts drawLines updates, in order; a null one is skipped
DrawTargets(e) ==
    {e.waveCtx}
    \cup (IF e.hasProgressCanvas THEN {e.progressCtx} ELSE {})
    \cup (IF e.hasRestrictedCanvases THEN {e.restrictLeftCtx, e.restrictRightCtx} ELSE {})

\* drawLines(peaks, absmax, halfH, offsetY, start, end)
drawLines(e, c, peaks, absmax, halfH, offsetY, start, end) ==
    LET hit == DrawTargets(e) \ {Null}
    IN  Outcome(e,
                [s \in Surfaces |->
                    IF s \in hit
                    THEN drawLineToContext(e, c[s], peaks, absmax, halfH, offsetY, start, end)
                    ELSE c[s]],
                None, hit)

\* destroy()
destroy(e, c) ==
    Outcome([e EXCEPT !.waveCtx = Null, !.wave = Null,
                      !.progressCtx = Null, !.progress = Null],
            c, None, {})

\* ------------------------------------------------------------------------
\* State
\* ------------------------------------------------------------------------
VARIABLES
    entry,      \* the single tile: a CanvasEntry
    canvas,     \* its canvas elements, by name
    phase,      \* "new", "ready", "failed" (initialization threw), "destroyed"
    last,       \* the last call on the tile and its outcome
    prev,       \* the call before it
    calls,      \* number of calls made on the tile since its creation
    \* a tile set
    tiles,      \* the tiles, left to right: each an entry e and its canvases c
    layout,     \* the total width and the tiles' owned widths, in pixels
    pass,       \* the last operation fanned out over the tiles, and its view
    \* the restrict example application
    options,    \* options.restrictOptions
    ready,      \* the 'ready' event has fired
    trim,       \* wavesurfer.regions.list.trim
    stale,      \* 'trim' regions replaced in the list without being removed
    notified,   \* the range last handed to updateRestrictOptions
    trip        \* progress of a Trim -> Trimmed -> Trim round trip

tileVars == <<entry, canvas, phase, last, prev, calls>>
setVars == <<tiles, layout, pass>>
appVars == <<options, ready, trim, stale, notified, trip>>

vars == <<entry, canvas, phase, last, prev, calls, tiles, layout, pass,
          options, ready, trim, stale, notified, trip>>

\* a canvas element as the document creates it: 300 by 150, black fill
NewCanvas(offsetLeft) ==
    [offsetLeft |-> offsetLeft, width |-> 300, height |-> 150, styleWidth |-> 300,
     fillStyle |-> "#000", paint |-> <<>>]

Call(op, args, out) == [op |-> op, args |-> args, threw |-> out.threw, filled |-> out.filled]

\* inputs
Handles(s) == {Null, s}
Offsets == {0, 1}                        \* offsetLeft of the tile's canvases
Widths == {0, 1, 2}                      \* elementWidth
TotalWidths == {1, 2}                    \* totalWidth
PeakArrays == { <<2, -1, 1, -2, -1, -1>>, <<1, -2, 2, -1>> }
Views == { <<0, 0>>, <<0, 2>>, <<1, 2>>, <<1, 1>> }
Rects == { <<0, 0, 1, 2, 0>>, <<0, 1, 1, -1, 1>>, <<0, 0, 1, 0, 1>> }

TileInit ==
    /\ entry = NewEntry
    /\ canvas = [s \in Surfaces |-> NewCanvas(0)]
    /\ phase = "new"
    /\ last = [op |-> "constructor", args |-> <<>>, threw |-> None, filled |-> {}]
    /\ prev = [op |-> None, args |-> <<>>]
    /\ calls = 0

\* The renderer creates a tile: it sets the feature flags, lays the canvas
\* elements out at offsetLeft, and calls initWave, then initProgress and
\* initRestricted for the features that are on.  The first throw ends it.
initialize(e, c, hasP, hasR, w, p, l, r) ==
    LET e0 == [e EXCEPT !.hasProgressCanvas = hasP, !.hasRestrictedCanvases = hasR]
        o1 == initWave(e0, c, w)
        o2 == IF o1.threw = None /\ hasP THEN initProgress(o1.e, o1.c, p) ELSE o1
        o3 == IF o2.threw = None /\ hasR THEN initRestricted(o2.e, o2.c, l, r) ELSE o2
    IN  o3

Initialize ==
    /\ phase = "new"
    /\ \E hasP \in BOOLEAN, hasR \in BOOLEAN, left \in Offsets,
          w \in Handles("wave"), p \in Handles("progress"),
          l \in Handles("restrictLeft"), r \in Handles("restrictRight") :
          LET out == initialize(entry, [s \in Surfaces |-> NewCanvas(left)],
                                hasP, hasR, w, p, l, r)
          IN  /\ entry' = out.e
              /\ canvas' = out.c
              /\ phase' = IF out.threw = None THEN "ready" ELSE "failed"
              /\ last' = Call("initialize", <<hasP, hasR, w, p, l, r>>, out)
              /\ prev' = [op |-> last.op, args |-> last.args]
              /\ UNCHANGED <<calls, setVars, appVars>>

Usable == phase \in {"ready", "destroyed"} /\ calls < MaxCalls

Apply(op, args, out) ==
    /\ entry' = out.e
    /\ canvas' = out.c
    /\ last' = Call(op, args, out)
    /\ prev' = [op |-> last.op, args |-> last.args]
    /\ calls' = calls + 1
    /\ UNCHANGED <<phase, setVars, appVars>>

UpdateDimensions ==
    /\ Usable
    /\ \E totalWidth \in TotalWidths, elementWidth \in Widths :
          /\ canvas["wave"].offsetLeft + elementWidth <= totalWidth
          /\ Apply("updateDimensions", <<elementWidth, totalWidth, elementWidth, 2>>,
                   updateDimensions(entry, canvas, elementWidth, totalWidth,
                                    elementWidth, 2))

ClearWave ==
    /\ Usable
    /\ Apply("clearWave", <<>>, clearWave(entry, canvas))

SetFillStyles ==
    /\ Usable
    /\ Apply("setFillStyles", <<"violet", "purple", "#bbb">>,
             setFillStyles(entry, canvas, "violet", "purple", "#bbb"))

FillRects ==
    /\ Usable
    /\ \E a \in Rects :
          Apply("fillRects", a, fillRects(entry, canvas, a[1], a[2], a[3], a[4], a[5]))

DrawLines ==
    /\ Usable
    /\ \E peaks \in PeakArrays, v \in Views :
          Apply("drawLines", <<peaks, 2, 1, 0, v[1], v[2]>>,
                drawLines(entry, canvas, peaks, 2, 1, 0, v[1], v[2]))

Destroy ==
    /\ Usable
    /\ entry' = destroy(entry, canvas).e
    /\ canvas' = canvas
    /\ phase' = "destroyed"
    /\ last' = Call("destroy", <<>>, destroy(entry, canvas))
    /\ prev' = [op |-> last.op, args |-> last.args]
    /\ calls' = calls + 1
    /\ UNCHANGED <<setVars, appVars>>

\* ------------------------------------------------------------------------
\* A tile set: the tiles of one waveform, left to right
\* ------------------------------------------------------------------------
\* the sequences of at most n positive widths that sum to total
RECURSIVE Partitions(_, _)
Partitions(total, n) ==
    IF total = 0 THEN {<<>>}
    ELSE IF n = 0 THEN {}
    ELSE UNION { { <<w>> \o rest : rest \in Partitions(total - w, n - 1) } : w \in 1..total }

RECURSIVE SumTo(_, _)
SumTo(ws, k) == IF k = 0 THEN 0 ELSE ws[k] + SumTo(ws, k - 1)

\* the peaks drawn on a tile set: a maximum and a minimum per column
SetPeaks == <<2, -1, 1, -2, 0, -1, 2, 0, 1, -1, 2, -2>>

SetInit ==
    /\ tiles = <<>>
    /\ layout = [total |-> 0, widths |-> <<>>]
    /\ pass = [op |-> None, view |-> <<0, 0>>]

\* a new tile with a wave canvas only, laid out at offsetLeft and sized to
\* its share elementWidth of totalWidth
NewTile(offsetLeft, elementWidth, totalWidth) ==
    LET made  == initialize(NewEntry, [s \in Surfaces |-> NewCanvas(offsetLeft)],
                            FALSE, FALSE, "wave", Null, Null, Null)
        sized == updateDimensions(made.e, made.c, elementWidth, totalWidth, elementWidth, 2)
    IN  [e |-> sized.e, c |-> sized.c]

\* The coordinator creates the tiles, each laid out right of the one before,
\* and sizes them. A later repartition drops every tile and starts again from
\* here, so the first one reaches every tile set there is.
Repartition ==
    /\ tiles = <<>>
    /\ \E total \in 1..MaxTotalWidth :
         \E ws \in Partitions(total, MaxTiles) :
           /\ tiles' = [k \in 1..Len(ws) |-> NewTile(SumTo(ws, k - 1), ws[k], total)]
           /\ layout' = [total |-> total, widths |-> ws]
           /\ pass' = [op |-> "repartition", view |-> <<0, 0>>]
    /\ UNCHANGED <<tileVars, appVars>>

\* updateDimensions on every tile
ResizeAll ==
    /\ tiles # <<>>
    /\ tiles' = [k \in 1..Len(tiles) |->
                    LET out == updateDimensions(tiles[k].e, tiles[k].c, layout.widths[k],
                                                layout.total, layout.widths[k], 2)
                    IN  [e |-> out.e, c |-> out.c]]
    /\ pass' = [op |-> "resize", view |-> <<0, 0>>]
    /\ UNCHANGED <<layout, tileVars, appVars>>

\* drawLines on every tile, for the view [start, end)
DrawAll ==
    /\ tiles # <<>>
    /\ \E start \in 0..MaxView, end \in 0..MaxView :
         /\ start <= end
         /\ tiles' = [k \in 1..Len(tiles) |->
                         LET out == drawLines(tiles[k].e, tiles[k].c, SetPeaks, 2, 1, 0,
                                              start, end)
                         IN  [e |-> out.e, c |-> out.c]]
         /\ pass' = [op |-> "draw", view |-> <<start, end>>]
    /\ UNCHANGED <<layout, tileVars, appVars>>

\* ------------------------------------------------------------------------
\* The restrict example (src/example/restrict/app.js)
\* ------------------------------------------------------------------------
NoRegion == [present |-> FALSE, start |-> 0, end |-> 0]

\* values a region-updated event may carry
DragTimes == {-1, 0, 5, 15, TotalDuration, TotalDuration + 1}

AppInit ==
    /\ options \in { [restrict |-> TRUE, start |-> 5, end |-> 15,
                      relativeTime |-> FALSE, narrow |-> n] : n \in BOOLEAN }
    /\ ready = FALSE
    /\ trim = NoRegion
    /\ stale = 0
    /\ notified = None
    /\ trip = [stage |-> 0, snap |-> None]

\* wavesurfer.addRegion({id: "trim", start, end}): the regions plugin keeps
\* its regions by id, so a second 'trim' takes the first one's place
addRegion(start, end) ==
    /\ trim' = [present |-> TRUE, start |-> start, end |-> end]
    /\ stale' = IF trim.present THEN stale + 1 ELSE stale

initTrimRegionHandles(start, end) == addRegion(start, end)

removeTrimRegionHandles ==
    /\ trim' = NoRegion
    /\ UNCHANGED stale

\* wavesurfer.updateRestrictOptions(options.restrictOptions): the renderer
\* is handed the application's own options object
updateRestrictOptions(o) == notified' = [start |-> o.start, end |-> o.end]

NoTrip == trip' = [stage |-> 0, snap |-> None]

HandleReady ==
    /\ ~ready
    /\ ready' = TRUE
    /\ IF ~options.narrow /\ options.restrict
       THEN initTrimRegionHandles(options.start, options.end)
       ELSE UNCHANGED <<trim, stale>>
    /\ NoTrip
    /\ UNCHANGED <<options, notified, tileVars, setVars>>

\* the regions plugin reports the new bounds of the dragged region
RegionUpdated ==
    /\ trim.present
    /\ \E start \in DragTimes, end \in DragTimes :
         /\ trim' = [trim EXCEPT !.start = start, !.end = end]
         /\ options' = [options EXCEPT !.start = start, !.end = end]
         /\ updateRestrictOptions(options')
    /\ NoTrip
    /\ UNCHANGED <<ready, stale, tileVars, setVars>>

ToggleRestrict ==
    /\ options' = [options EXCEPT !.restrict = ~options.restrict]
    /\ updateRestrictOptions(options')
    /\ NoTrip
    /\ UNCHANGED <<ready, trim, stale, tileVars, setVars>>

ToggleNarrow ==
    /\ IF options.narrow
       THEN /\ options' = [options EXCEPT !.narrow = FALSE]
            /\ initTrimRegionHandles(options.start, options.end)
            /\ trip' = IF trip.stage = 1 THEN [trip EXCEPT !.stage = 2]
                       ELSE [stage |-> 0, snap |-> None]
       ELSE /\ options' = [options EXCEPT !.narrow = TRUE]
            /\ removeTrimRegionHandles
            /\ trip' = [stage |-> 1,
                        snap |-> [options |-> options, trim |-> trim, ready |-> ready]]
    /\ updateRestrictOptions(options')
    /\ UNCHANGED <<ready, tileVars, setVars>>

ToggleRelative ==
    /\ options' = [options EXCEPT !.relativeTime = ~options.relativeTime]
    /\ updateRestrictOptions(options')
    /\ NoTrip
    /\ UNCHANGED <<ready, trim, stale, tileVars, setVars>>

\* ------------------------------------------------------------------------
\* Specifications
\* ------------------------------------------------------------------------
\* the single tile
Init == TileInit /\ SetInit /\ AppInit /\ ~options.narrow
Next ==
    \/ Initialize
    \/ UpdateDimensions
    \/ ClearWave
    \/ SetFillStyles
    \/ FillRects
    \/ DrawLines
    \/ Destroy
Spec == Init /\ [][Next]_vars

\* the tile set
TilesInit == TileInit /\ SetInit /\ AppInit /\ ~options.narrow
TilesNext ==
    \/ Repartition
    \/ ResizeAll
    \/ DrawAll
TilesSpec == TilesInit /\ [][TilesNext]_vars

\* the restrict example
RestrictInit == TileInit /\ SetInit /\ AppInit
RestrictNext ==
    \/ HandleReady
    \/ RegionUpdated
    \/ ToggleRestrict
    \/ ToggleNarrow
    \/ ToggleRelative
RestrictSpec == RestrictInit /\ [][RestrictNext]_vars

\* ------------------------------------------------------------------------
\* Properties
\* ------------------------------------------------------------------------
AllHandles == {"wave", "waveCtx", "progress", "progressCtx",
               "restrictLeft", "restrictLeftCtx", "restrictRight", "restrictRightCtx"}

\* what was painted last on a surface
LastOp(cv) == cv.paint[Len(cv.paint)]

\* the fill a tile of the set shows on its wave surface
FillOn(t) == LastOp(t.c["wave"])

\* tiles k and k + 1 share a boundary
SeamAt(k) == tiles[k].e.end = tiles[k + 1].e.start

\* C1: after every tile of a set has drawn a view window, for each pair of
\* adjacent tiles whose spans share a boundary the last peak index the left
\* tile rasterises (its last - 1) is the first one the right tile rasterises.
C1_SeamContinuity ==
    pass.op = "draw" =>
        \A k \in 1..(Len(tiles) - 1) :
            SeamAt(k) => FillOn(tiles[k]).last - 1 = FillOn(tiles[k + 1]).first

\* three tiles sharing both boundaries have drawn a window of four columns
\* or more, the middle tile not starting at the window's first column
C1_Witness ==
    /\ pass.op = "draw"
    /\ Len(tiles) = 3
    /\ SeamAt(1) /\ SeamAt(2)
    /\ pass.view[2] - pass.view[1] >= 4
    /\ FillOn(tiles[2]).first > pass.view[1]
    /\ FillOn(tiles[2]).last - 1 = FillOn(tiles[3]).first
    /\ FillOn(tiles[3]).first > FillOn(tiles[2]).first

\* C2: once every tile of a set has been through updateDimensions, the first
\* span starts at 0, each span ends where the next one starts, the last span
\* ends at 1, and every span satisfies 0 <= start <= end <= 1.
C2_SpansContiguous ==
    tiles # <<>> =>
        /\ tiles[1].e.start = FZero
        /\ \A k \in 1..(Len(tiles) - 1) : SeamAt(k)
        /\ tiles[Len(tiles)].e.end = FInt(1)
        /\ \A k \in 1..Len(tiles) :
              FLeq(tiles[k].e.start, tiles[k].e.end) /\ FLeq(tiles[k].e.end, FInt(1))

\* C3: whatever range edits have been made, the stored restricted range
\* satisfies 0 <= start < end <= totalDuration.
C3_RangeClamped ==
    /\ 0 <= options.start
    /\ options.start < options.end
    /\ options.end <= TotalDuration

\* C4: after the ready event, with restriction enabled, two consecutive
\* toggle-narrow clicks that go from Trim to Trimmed and back restore the
\* restrict flag, start, end, relativeTime, and the presence and the bounds of
\* the 'trim' region.
C4_ModeRoundTrip ==
    (trip.stage = 2 /\ trip.snap.ready /\ trip.snap.options.restrict) =>
        /\ options = trip.snap.options
        /\ trim = trip.snap.trim

\* C5: a drawLines call that directly follows a drawLines call with the same
\* peaks, absmax, halfH, offsetY, start and end leaves every surface as the
\* first call left it.
C5_DrawIdempotent ==
    [][(last.op = "drawLines" /\ last'.op = "drawLines" /\ last'.args = last.args
            /\ calls' = calls + 1)
         => canvas' = canvas]_vars

\* the second of two identical draws on a tile with all four surfaces
C5_Witness ==
    /\ prev.op = "drawLines"
    /\ last.op = "drawLines"
    /\ prev.args = last.args
    /\ last.filled = Surfaces
    /\ \A s \in Surfaces : Len(canvas[s].paint) = 1

\* C6: an initialization with a feature flag set and a surface of that
\* feature missing fails; and no call after the initialization fails on a
\* surface or context of the progress or restrict feature.
C6_MissingSurfaceFatalAtInit ==
    /\ last.op = "initialize" =>
          LET a == last.args
          IN  ((a[1] /\ a[4] = Null) \/ (a[2] /\ (a[5] = Null \/ a[6] = Null)))
                  => (phase = "failed" /\ last.threw # None)
    /\ phase \in {"ready", "destroyed"} =>
          /\ entry.hasProgressCanvas => entry.progressCtx # Null \/ phase = "destroyed"
          /\ entry.hasRestrictedCanvases =>
                (entry.restrictLeftCtx # Null /\ entry.restrictRightCtx # Null)
    /\ last.op # "initialize" => last.threw \notin {"progress", "restrictLeft", "restrictRight"}

\* a tile with both features has resized its four surfaces without failing
C6_Witness ==
    /\ phase = "ready"
    /\ entry.hasProgressCanvas /\ entry.hasRestrictedCanvases
    /\ last.op = "updateDimensions"
    /\ last.threw = None
    /\ prev.op = "initialize"

\* C7: after destroy() every surface handle and context of the tile is null,
\* and the call did not fail.
C7_DestroyReleasesAll ==
    last.op = "destroy" =>
        /\ \A h \in AllHandles : entry[h] = Null
        /\ last.threw = None

\* C8: after clearWave() every surface the tile has is blank.
C8_ClearBlanksAll ==
    (last.op = "clearWave" /\ last.threw = None) =>
        \A s \in Surfaces : entry[s] # Null => canvas[s].paint = <<>>

\* C9: a drawLines call with an empty view window (start = end), or on a
\* tile whose span is empty, fills no path on any surface and does not fail.
C9_EmptyWindowNoOp ==
    (last.op = "drawLines" /\ (last.args[5] = last.args[6] \/ entry.start = entry.end)) =>
        /\ last.filled = {}
        /\ last.threw = None

\* C10: in every path a drawLines call fills, the starting vertex takes its
\* height from the maximum of column first, and no vertex takes its height
\* from a column outside [first, last).
C10_PathFromOwnRange ==
    last.op = "drawLines" =>
        \A s \in last.filled :
            LET f == LastOp(canvas[s])
            IN  /\ \E i \in DOMAIN f.path :
                      /\ f.path[i].src = 2 * f.first
                      /\ \A j \in 1..(i - 1) : f.path[j].src = -1
                /\ \A i \in DOMAIN f.path :
                      f.path[i].src >= 0 => (f.path[i].src \div 2) \in f.first..(f.last - 1)

\* C11: after every tile of a set has drawn the view window [start, end), a
\* tile whose span ends at 1 has last = end, and no top-edge or bottom-edge
\* vertex of any tile is taken from a peak column at or beyond end.
C11_OverlapExceptFinalTile ==
    pass.op = "draw" =>
        \A k \in 1..Len(tiles) :
            LET f == FillOn(tiles[k])
            IN  /\ tiles[k].e.end = FInt(1) => f.last = pass.view[2]
                /\ \A i \in DOMAIN f.path :
                      f.path[i].k >= 0 => (f.path[i].src \div 2) < pass.view[2]

\* C12: once the ready event has fired, a 'trim' region exists exactly when
\* restrict is set and narrow is not, and initTrimRegionHandles has never
\* been invoked while a 'trim' region existed.
C12_TrimHandleConsistent ==
    ready =>
        /\ trim.present <=> (options.restrict /\ ~options.narrow)
        /\ stale = 0
====
